---- MODULE Spec2Model ----
(***************************************************************************)
(* ProjectForge: extraction of the five stage outputs by agent role        *)
(* (project_forge/utils/task_extractors.py), the workflow runner           *)
(* (project_forge/core.py), the command-line run (main.py) and the web     *)
(* session (app.py).                                                       *)
(*                                                                         *)
(* Python values are encoded as follows.  An Optional value is a sequence  *)
(* of length at most one: None is << >> and a present value x is << x >>.  *)
(* A str that the code inspects character by character (an agent role) is  *)
(* the sequence of its characters; a str that the code only stores and     *)
(* copies (a stage's text) is a TLA+ string; a str that the code builds    *)
(* with an f-string is the sequence of the pieces it is built from.  A     *)
(* dict is a function whose domain is the set of its keys.                 *)
(***************************************************************************)
EXTENDS Integers, Sequences, FiniteSets, TLC

VARIABLES
    records,      \* the list of Task objects handed to the extractors
    strictOut,    \* outcome of extract_task_outputs_by_role(records)
    safeOut,      \* outcome of extract_task_outputs_safe(records)
    clock,        \* what datetime.now() reads
    cli,          \* main.py: the locals of main() and its position
    files,        \* main.py: the files in the working directory
    stdout,       \* main.py: what main() has printed
    exit,         \* main.py: how main() ended
    form,         \* app.py: the widgets' values (description, API key, model)
    session_state,\* app.py: st.session_state
    lastRun       \* app.py: the latest run_analysis call and what its collaborators did

extractVars == <<records, strictOut, safeOut>>
cliVars == <<cli, files, stdout, exit>>
webVars == <<form, session_state, lastRun>>
vars == <<records, strictOut, safeOut, clock, cli, files, stdout, exit,
          form, session_state, lastRun>>

\* ------------------------------------------------------------------------
\* Bounds
\* ------------------------------------------------------------------------
MaxTasks == 5
MaxClock == 2
MaxPermuted == 4

\* ------------------------------------------------------------------------
\* Python values
\* ------------------------------------------------------------------------
None == << >>
Some(x) == << x >>

\* str(None)
StrOfNone == "None"

NoExc == [type |-> "", msg |-> ""]

EmptyDict == [k \in {} |-> None]

\* d[k] = v
DictSet(d, k, v) == [x \in (DOMAIN d) \cup {k} |-> IF x = k THEN v ELSE d[x]]

\* d.get(k)
DictGet(d, k) == IF k \in DOMAIN d THEN d[k] ELSE None

\* bool(x) for an Optional[str]
Truthy(x) == x # None /\ x[1] # ""

\* x or default, for an Optional[str] x and a str default
OrElse_str(x, default) == IF x # None THEN x[1] ELSE StrOfNone
OrElse(x, default) == IF Truthy(x) THEN x[1] ELSE default

\* ------------------------------------------------------------------------
\* project_forge/utils/task_extractors.py
\* ------------------------------------------------------------------------
RoleIntake == <<"R","e","q","u","i","r","e","m","e","n","t","s"," ","I","n","t","a","k","e"," ","S","p","e","c","i","a","l","i","s","t">>
RoleArchitect == <<"T","e","c","h","n","i","c","a","l"," ","A","r","c","h","i","t","e","c","t">>
RoleQuality == <<"S","e","n","i","o","r"," ","Q","u","a","l","i","t","y"," ","A","u","d","i","t","o","r">>
RoleSynthesis == <<"T","e","c","h","n","i","c","a","l"," ","S","y","n","t","h","e","s","i","z","e","r">>
RoleManager == <<"P","r","o","j","e","c","t"," ","M","a","n","a","g","e","r">>

\* The dict literal of lines 28-34, in insertion order (the order in which
\* .items() yields its entries).
role_mapping ==
    << [full_role |-> RoleIntake,    short_key |-> "intake"],
       [full_role |-> RoleArchitect, short_key |-> "architect"],
       [full_role |-> RoleQuality,   short_key |-> "quality"],
       [full_role |-> RoleSynthesis, short_key |-> "synthesis"],
       [full_role |-> RoleManager,   short_key |-> "manager"] >>

\* set(role_mapping.values())
required_roles == {role_mapping[i].short_key : i \in 1..Len(role_mapping)}

\* Agent roles that occur in the task lists explored: the five roles that
\* create_agents gives its agents, a role that embeds two registry names
\* ("Lead Project Manager and Technical Architect") and a role that embeds
\* none ("Data Scientist").
RoleLeadBoth == <<"L","e","a","d"," ","P","r","o","j","e","c","t"," ","M","a","n","a","g","e","r"," ","a","n","d"," ","T","e","c","h","n","i","c","a","l"," ","A","r","c","h","i","t","e","c","t">>
RoleOther == <<"D","a","t","a"," ","S","c","i","e","n","t","i","s","t">>
KnownRoles ==
    {RoleIntake, RoleArchitect, RoleQuality, RoleSynthesis, RoleManager,
     RoleLeadBoth, RoleOther}

\* Python's `sub in s` on two str values.
Contains_equality(sub, s) == sub = s
Contains(sub, s) ==
    \E i \in 0..(Len(s) - Len(sub)) : \A j \in 1..Len(sub) : s[i + j] = sub[j]

\* The inner loop `for full_role, short_key in role_mapping.items()` with its
\* `break`: the short key of the first entry, from entry i on, whose
\* full_role is in agent_role, or None when the loop runs out.
RECURSIVE FindShortKey(_, _)
FindShortKey(agent_role, i) ==
    IF i > Len(role_mapping) THEN None
    ELSE IF Contains(role_mapping[i].full_role, agent_role)
         THEN Some(role_mapping[i].short_key)
         ELSE FindShortKey(agent_role, i + 1)

\* FindShortKey from the first entry, tabulated over KnownRoles.
MatchedKey == [agent_role \in KnownRoles |-> FindShortKey(agent_role, 1)]

\* task.output.raw if hasattr(task.output, 'raw') else str(task.output)
OutputText(task) ==
    IF task.output # None THEN task.output[1].raw ELSE StrOfNone

\* One iteration of `for task in tasks` (lines 38-49 and 98-111).
LoopBody_first_wins(task, outputs) ==
    IF task.agent = None THEN outputs
    ELSE LET m == MatchedKey[task.agent[1].role]
         IN  IF m = None \/ DictGet(outputs, m[1]) # None THEN outputs
             ELSE DictSet(outputs, m[1], Some(OutputText(task)))
LoopBody(task, outputs) ==
    IF task.agent = None THEN outputs
    ELSE LET m == MatchedKey[task.agent[1].role]
         IN  IF m = None THEN outputs
             ELSE DictSet(outputs, m[1], Some(OutputText(task)))

RECURSIVE TaskLoop(_, _, _)
TaskLoop(tasks, i, outputs) ==
    IF i > Len(tasks) THEN outputs
    ELSE TaskLoop(tasks, i + 1, LoopBody(tasks[i], outputs))

\* extract_task_outputs_by_role: the outcome is either the returned dict or
\* the ValueError, carrying the two sets its message prints.
extract_task_outputs_by_role_unvalidated(tasks) ==
    [raised |-> FALSE, type |-> "", missing |-> {}, found |-> {},
     value |-> TaskLoop(tasks, 1, EmptyDict)]
extract_task_outputs_by_role(tasks) ==
    LET outputs == TaskLoop(tasks, 1, EmptyDict)
        found_roles == DOMAIN outputs
        missing_roles == required_roles \ found_roles
    IN  IF missing_roles # {}
        THEN [raised |-> TRUE, type |-> "ValueError",
              missing |-> missing_roles, found |-> found_roles,
              value |-> EmptyDict]
        ELSE [raised |-> FALSE, type |-> "",
              missing |-> {}, found |-> {},
              value |-> outputs]

\* extract_task_outputs_safe: the strict result, or on its ValueError the
\* fallback pass over a dict that starts with every key None.
extract_task_outputs_safe_by_position(tasks) ==
    [raised |-> FALSE,
     value |-> [k \in required_roles |->
                   LET i == CHOOSE n \in 1..Len(role_mapping) : role_mapping[n].short_key = k
                   IN  IF i <= Len(tasks) /\ tasks[i].agent # None
                       THEN Some(OutputText(tasks[i])) ELSE None]]
extract_task_outputs_safe_blank_fallback(tasks) ==
    LET strict == extract_task_outputs_by_role(tasks)
    IN  IF ~strict.raised
        THEN [raised |-> FALSE, value |-> strict.value]
        ELSE [raised |-> FALSE, value |-> [k \in required_roles |-> None]]
extract_task_outputs_safe_no_fallback(tasks) ==
    LET strict == extract_task_outputs_by_role(tasks)
    IN  [raised |-> strict.raised, value |-> strict.value]
extract_task_outputs_safe(tasks) ==
    LET strict == extract_task_outputs_by_role(tasks)
    IN  IF ~strict.raised
        THEN [raised |-> FALSE, value |-> strict.value]
        ELSE [raised |-> FALSE,
              value |-> TaskLoop(tasks, 1, [k \in required_roles |-> None])]

\* task.agent and task.output as the extractors read them.
Agent(role) == Some([role |-> role])
TaskOutput(raw) == Some([raw |-> raw])

\* ------------------------------------------------------------------------
\* project_forge/agents/team.py and project_forge/tasks/workflows.py
\* ------------------------------------------------------------------------
\* create_agents: the five agents, in the order of the returned tuple.
create_agents(llm) ==
    << [role |-> RoleIntake,    llm |-> llm],
       [role |-> RoleArchitect, llm |-> llm],
       [role |-> RoleQuality,   llm |-> llm],
       [role |-> RoleSynthesis, llm |-> llm],
       [role |-> RoleManager,   llm |-> llm] >>

\* create_tasks(user_input, agents): task1, task2, task3, synthesis_task,
\* task4 in the order of the returned list; context holds the positions of
\* the tasks named in each context=[...]; output is unset until the engine
\* runs the task.
create_tasks_manager_before_synthesis(user_input, agents) ==
    << [agent |-> Some(agents[1]), context |-> << >>,     output |-> None],
       [agent |-> Some(agents[2]), context |-> <<1>>,     output |-> None],
       [agent |-> Some(agents[3]), context |-> <<2>>,     output |-> None],
       [agent |-> Some(agents[5]), context |-> <<1, 5>>,  output |-> None],
       [agent |-> Some(agents[4]), context |-> <<2, 3>>,  output |-> None] >>
create_tasks(user_input, agents) ==
    << [agent |-> Some(agents[1]), context |-> << >>,     output |-> None],
       [agent |-> Some(agents[2]), context |-> <<1>>,     output |-> None],
       [agent |-> Some(agents[3]), context |-> <<2>>,     output |-> None],
       [agent |-> Some(agents[4]), context |-> <<2, 3>>,  output |-> None],
       [agent |-> Some(agents[5]), context |-> <<1, 4>>,  output |-> None] >>

\* The positional parameters of `def create_tasks(user_input, agents)`.
create_tasks_params_with_interactive_mode == <<"user_input", "agents", "interactive_mode">>
create_tasks_params == <<"user_input", "agents">>

\* A positional call create_tasks(*args): Python raises TypeError when the
\* number of arguments is not the number of parameters.
call_create_tasks_any_arity(args) ==
    [raised |-> FALSE, exc |-> NoExc, value |-> create_tasks(args[1], args[2])]
call_create_tasks(args) ==
    IF Len(args) # Len(create_tasks_params)
    THEN [raised |-> TRUE,
          exc |-> [type |-> "TypeError", msg |-> "create_tasks() takes 2 positional arguments but 3 were given"],
          value |-> << >>]
    ELSE [raised |-> FALSE, exc |-> NoExc, value |-> create_tasks(args[1], args[2])]

\* ------------------------------------------------------------------------
\* The external engine: Crew(...).kickoff() with Process.sequential
\* ------------------------------------------------------------------------
\* The text the model produces for the stage at each position.
StageText ==
    <<"intake text", "architect text", "quality text", "synthesis text", "manager text">>

\* What one kickoff does: it runs the first `done` tasks in list order, each
\* getting its output set, and then returns (exc = NoExc) or raises exc.
EngineError == [type |-> "RuntimeError", msg |-> "rate limit exceeded"]

EngineOutcomes ==
    {[done |-> k, exc |-> EngineError] : k \in 0..5} \cup {[done |-> 5, exc |-> NoExc]}

kickoff(tasks, engine) ==
    [tasks |-> [i \in 1..Len(tasks) |->
                    IF i <= engine.done
                    THEN [tasks[i] EXCEPT !.output = TaskOutput(StageText[i])]
                    ELSE tasks[i]],
     exc |-> engine.exc,
     crew_result |-> IF engine.exc = NoExc THEN Some(StageText[Len(tasks)]) ELSE None]

\* ------------------------------------------------------------------------
\* project_forge/utils/exporters.py and project_forge/templates.py
\* ------------------------------------------------------------------------
EmptyStr == << >>

\* convert_markdown_to_html(text): markdown.markdown either returns the HTML
\* of the text or raises.
MarkdownError == [type |-> "ValueError", msg |-> "markdown conversion failed"]

convert_markdown_to_html(text, fails) ==
    IF fails THEN [raised |-> TRUE, exc |-> MarkdownError, value |-> EmptyStr]
    ELSE [raised |-> FALSE, exc |-> NoExc, value |-> <<"<html-of>", text>>]

\* generate_html_template: the f-string, as the sequence of its parts that
\* vary or label a section; `now` is the datetime.now() of the Generated line.
generate_html_template_summary_first(timestamp, ba_html, architect_html, qa_html, synthesis_html, pm_html, now) ==
    <<"<title>", timestamp, "Generated:", now,
      "PM", pm_html, "BA", ba_html, "Architect", architect_html, "QA", qa_html,
      "Synthesis", synthesis_html>>
generate_html_template(timestamp, ba_html, architect_html, qa_html, synthesis_html, pm_html, now) ==
    <<"<title>", timestamp, "Generated:", now,
      "BA", ba_html, "Architect", architect_html, "QA", qa_html,
      "Synthesis", synthesis_html, "PM", pm_html>>

\* generate_text_content (timestamp is not used by the body).
generate_text_content_sections_swapped(timestamp, user_input, ba_output, architect_output, qa_output, synthesis_output, pm_output, now) ==
    <<"ProjectForge Analysis", "Generated:", now, "Project:", user_input,
      "## Business Requirements", ba_output,
      "## Technical Design", architect_output,
      "## Risk Assessment", synthesis_output,
      "## Technical Synthesis", qa_output,
      "## Executive Summary & Roadmap", pm_output>>
generate_text_content(timestamp, user_input, ba_output, architect_output, qa_output, synthesis_output, pm_output, now) ==
    <<"ProjectForge Analysis", "Generated:", now, "Project:", user_input,
      "## Business Requirements", ba_output,
      "## Technical Design", architect_output,
      "## Risk Assessment", qa_output,
      "## Technical Synthesis", synthesis_output,
      "## Executive Summary & Roadmap", pm_output>>

\* The converter behind weasyprint.HTML(...).write_pdf: present and working,
\* not installed (ImportError), or raising.
PdfOutcomes == {"ok", "ImportError", "Exception"}

\* generate_pdf_bytes(html_content): the bytes, or None.
generate_pdf_bytes(html_content, converter) ==
    IF converter = "ok"
    THEN [raised |-> FALSE, value |-> Some(<<"%PDF", html_content>>)]
    ELSE [raised |-> FALSE, value |-> None]

\* What HTML(...).write_pdf raises when the converter fails.
PdfError == [type |-> "Exception", msg |-> "pdf conversion failed"]

\* A failure to open or write a file.
WriteError == [type |-> "OSError", msg |-> "cannot write output file"]

\* save_text_output: the f.write calls in order, into the file system fs.
save_text_output(fs, output_file, user_input, ba_output, architect_output, qa_output, synthesis_output, pm_output, now, disk_ok) ==
    IF ~disk_ok THEN [raised |-> TRUE, exc |-> WriteError, fs |-> fs]
    ELSE [raised |-> FALSE, exc |-> NoExc,
          fs |-> DictSet(fs, output_file,
                    <<"ProjectForge Analysis", "Generated:", now, "Project:", user_input,
                      "## Business Requirements", ba_output,
                      "## Technical Design", architect_output,
                      "## Risk Assessment", qa_output,
                      "## Technical Synthesis", synthesis_output,
                      "## Executive Summary & Roadmap", pm_output>>)]

\* save_html_output
save_html_output(fs, html_output_file, html_content, disk_ok) ==
    IF ~disk_ok THEN [raised |-> TRUE, exc |-> WriteError, fs |-> fs]
    ELSE [raised |-> FALSE, exc |-> NoExc, fs |-> DictSet(fs, html_output_file, html_content)]

\* save_pdf_output: True and the file, or False and a warning; both except
\* clauses return.
save_pdf_output_reraise(fs, pdf_output_file, html_content, converter) ==
    IF converter = "ok"
    THEN [raised |-> FALSE, value |-> TRUE, warned |-> FALSE,
          fs |-> DictSet(fs, pdf_output_file, <<"%PDF", html_content>>)]
    ELSE [raised |-> converter = "Exception", value |-> FALSE, warned |-> TRUE, fs |-> fs]
save_pdf_output(fs, pdf_output_file, html_content, converter) ==
    IF converter = "ok"
    THEN [raised |-> FALSE, value |-> TRUE, warned |-> FALSE,
          fs |-> DictSet(fs, pdf_output_file, <<"%PDF", html_content>>)]
    ELSE [raised |-> FALSE, value |-> FALSE, warned |-> TRUE, fs |-> fs]

\* ------------------------------------------------------------------------
\* main.py
\* ------------------------------------------------------------------------
Sentinel == "[Task did not complete]"

DefaultInput == <<"W","e"," ","n","e","e","d"," ","a"," ","c","a","r","b","o","n"," ","t","r","a","c","k","i","n","g"," ","a","p","p"," ","w","i","t","h"," ","c","a","r"," ","t","r","i","p"," ","l","o","g","g","i","n","g"," ","a","n","d"," ","G","o","o","g","l","e"," ","L","o","g","i","n",".">>

\* str.strip() on a sequence of characters.
RECURSIVE LStrip(_)
LStrip(s) == IF s # << >> /\ Head(s) = " " THEN LStrip(Tail(s)) ELSE s
RECURSIVE RStrip(_)
RStrip(s) ==
    IF s # << >> /\ s[Len(s)] = " " THEN RStrip(SubSeq(s, 1, Len(s) - 1)) ELSE s
Strip(s) == RStrip(LStrip(s))

\* get_user_input(): what input("> ") read, stripped, or the default.
get_user_input(typed) ==
    LET user_input == Strip(typed)
    IN  IF user_input = << >> THEN DefaultInput ELSE user_input

\* What the user may type at the prompt.
TypedInputs == {<< >>, <<" ", " ">>, <<" ", "a", "p", "p", " ">>}

\* os.getenv("GOOGLE_API_KEY")
EnvApiKeys == {None, Some("key-1")}

\* os.getenv("LLM_MODEL", "gemini/gemini-2.5-flash")
model_name == "gemini/gemini-2.5-flash"

\* LLM(model=..., api_key=...)
LLM(model, api_key) == [model |-> model, api_key |-> api_key]

\* An exception out of LLM(), create_agents() or Crew().
BuildError == [type |-> "ValueError", msg |-> "cannot build the crew"]

\* f"{type(e).__name__}: {e}"
FormatException(e) == <<e.type, ": ", e.msg>>

OutputFile(timestamp, ext) == <<"output_", timestamp, ext>>

\* One print(): the fixed text and what is interpolated into it.
Line(text, arg) == [text |-> text, arg |-> arg]

NotExited == [status |-> "running", exc |-> NoExc]

CliIdle ==
    [pc |-> "input", user_input |-> << >>, timestamp |-> 0, api_key |-> None,
     tasks |-> << >>, engine |-> [done |-> 0, exc |-> NoExc],
     workflow_error |-> None, result |-> None,
     outputs |-> EmptyDict, html_content |-> EmptyStr, pdf_generated |-> FALSE]

\* `except Exception as save_error: print(CRITICAL ...); raise` (lines 139-141)
CliSaveFailed(e) ==
    /\ cli' = [cli EXCEPT !.pc = "exited"]
    /\ stdout' = Append(stdout, Line("CRITICAL: Failed to save outputs", e.msg))
    /\ exit' = [status |-> "raised", exc |-> e]

\* Lines 50-56: the prompt, the timestamp and the three file names.
CliGetInput(typed) ==
    /\ cli.pc = "input"
    /\ cli' = [cli EXCEPT !.pc = "build",
                          !.user_input = get_user_input(typed),
                          !.timestamp = clock]
    /\ stdout' = IF Strip(typed) = << >> THEN Append(stdout, Line("Using default", DefaultInput))
                 ELSE stdout
    /\ UNCHANGED <<files, exit, clock, extractVars, webVars>>

\* Lines 58-80: LLM, agents, tasks and crew are built outside any try.
CliBuild(api_key, failure) ==
    /\ cli.pc = "build"
    /\ \/ /\ failure = NoExc
          /\ cli' = [cli EXCEPT !.pc = "kickoff", !.api_key = api_key,
                        !.tasks = create_tasks(cli.user_input,
                                     create_agents(LLM(model_name, api_key)))]
          /\ stdout' = Append(stdout, Line("### ProjectForge: Initiating Full Analysis Workflow ###", << >>))
          /\ UNCHANGED exit
       \/ /\ failure # NoExc
          /\ cli' = [cli EXCEPT !.pc = "exited", !.api_key = api_key]
          /\ exit' = [status |-> "raised", exc |-> failure]
          /\ UNCHANGED stdout
    /\ UNCHANGED <<files, clock, extractVars, webVars>>

\* Lines 83-94: aba_crew.kickoff() in the try, and its except clause.
CliKickoff(engine) ==
    /\ cli.pc = "kickoff"
    /\ LET run == kickoff(cli.tasks, engine)
       IN  /\ cli' = [cli EXCEPT !.pc = "extract", !.engine = engine,
                         !.tasks = run.tasks,
                         !.result = run.crew_result,
                         !.workflow_error =
                             IF run.exc = NoExc THEN None ELSE Some(run.exc)]
           /\ stdout' = IF run.exc = NoExc
                        THEN Append(stdout, Line("FINAL PROJECT PLAN", run.crew_result))
                        ELSE stdout \o << Line("WARNING: WORKFLOW ERROR", FormatException(run.exc)),
                                          Line("Attempting to save partial results...", << >>) >>
    /\ UNCHANGED <<files, exit, clock, extractVars, webVars>>

\* Lines 98-104: safe extraction and the five `or` defaults.
CliExtract ==
    /\ cli.pc = "extract"
    /\ LET outputs == extract_task_outputs_safe(cli.tasks).value
       IN  cli' = [cli EXCEPT !.pc = "save_text",
                      !.outputs = [k \in required_roles |->
                                      OrElse(DictGet(outputs, k), Sentinel)]]
    /\ UNCHANGED <<files, stdout, exit, clock, extractVars, webVars>>

\* Lines 111-118 of main.py and 112-120 of core.py: the five conversions in
\* order, then the template; failAt names the call that raises (0: none,
\* 1-5: the conversion of that section, 6: generate_html_template).
TemplateError == [type |-> "ValueError", msg |-> "template failed"]

RenderFailures == 0..6

render_html(timestamp, outputs, now, failAt) ==
    LET ba_html == convert_markdown_to_html(outputs["intake"], failAt = 1)
        architect_html == convert_markdown_to_html(outputs["architect"], failAt = 2)
        qa_html == convert_markdown_to_html(outputs["quality"], failAt = 3)
        synthesis_html == convert_markdown_to_html(outputs["synthesis"], failAt = 4)
        pm_html == convert_markdown_to_html(outputs["manager"], failAt = 5)
        failed == {c \in {ba_html, architect_html, qa_html, synthesis_html, pm_html} : c.raised}
    IN  IF failed # {}
        THEN [raised |-> TRUE, exc |-> MarkdownError, value |-> EmptyStr]
        ELSE IF failAt = 6
        THEN [raised |-> TRUE, exc |-> TemplateError, value |-> EmptyStr]
        ELSE [raised |-> FALSE, exc |-> NoExc,
              value |-> generate_html_template(timestamp, ba_html.value,
                            architect_html.value, qa_html.value,
                            synthesis_html.value, pm_html.value, now)]

\* Line 108: save_text_output, first statement of the try.
CliSaveText(disk_ok) ==
    /\ cli.pc = "save_text"
    /\ LET w == save_text_output(files, OutputFile(cli.timestamp, ".txt"),
                    cli.user_input, cli.outputs["intake"], cli.outputs["architect"],
                    cli.outputs["quality"], cli.outputs["synthesis"],
                    cli.outputs["manager"], clock, disk_ok)
       IN  \/ /\ ~w.raised
              /\ files' = w.fs
              /\ cli' = [cli EXCEPT !.pc = "render"]
              /\ UNCHANGED <<stdout, exit>>
           \/ /\ w.raised
              /\ CliSaveFailed(w.exc)
              /\ UNCHANGED files
    /\ UNCHANGED <<clock, extractVars, webVars>>

\* Lines 111-118: markdown to HTML and the template, in the same try.
CliRender_before_save_text(failAt) ==
    /\ cli.pc \in {"save_text", "render"}
    /\ LET r == render_html(cli.timestamp, cli.outputs, clock, failAt)
       IN  \/ /\ ~r.raised
              /\ cli' = [cli EXCEPT !.pc = "save_html", !.html_content = r.value]
              /\ UNCHANGED <<stdout, exit>>
           \/ /\ r.raised
              /\ CliSaveFailed(r.exc)
    /\ UNCHANGED <<files, clock, extractVars, webVars>>
CliRender(failAt) ==
    /\ cli.pc = "render"
    /\ LET r == render_html(cli.timestamp, cli.outputs, clock, failAt)
       IN  \/ /\ ~r.raised
              /\ cli' = [cli EXCEPT !.pc = "save_html", !.html_content = r.value]
              /\ UNCHANGED <<stdout, exit>>
           \/ /\ r.raised
              /\ CliSaveFailed(r.exc)
    /\ UNCHANGED <<files, clock, extractVars, webVars>>

\* Line 121: save_html_output.
CliSaveHtml(disk_ok) ==
    /\ cli.pc = "save_html"
    /\ LET w == save_html_output(files, OutputFile(cli.timestamp, ".html"),
                                 cli.html_content, disk_ok)
       IN  \/ /\ ~w.raised
              /\ files' = w.fs
              /\ cli' = [cli EXCEPT !.pc = "save_pdf"]
              /\ UNCHANGED <<stdout, exit>>
           \/ /\ w.raised
              /\ CliSaveFailed(w.exc)
              /\ UNCHANGED files
    /\ UNCHANGED <<clock, extractVars, webVars>>

\* Lines 124-137: save_pdf_output and the summary.
CliSavePdf(converter) ==
    /\ cli.pc = "save_pdf"
    /\ LET p == save_pdf_output(files, OutputFile(cli.timestamp, ".pdf"),
                                cli.html_content, converter)
           warning == IF p.warned THEN << Line("WARNING: PDF", converter) >> ELSE << >>
           summary ==
               << IF cli.workflow_error # None
                  THEN Line("WARNING: PARTIAL OUTPUT SAVED", cli.workflow_error[1].type)
                  ELSE Line("OUTPUT SAVED", << >>),
                  Line("Plain text", OutputFile(cli.timestamp, ".txt")),
                  Line("HTML", OutputFile(cli.timestamp, ".html")) >>
               \o (IF p.value THEN << Line("PDF", OutputFile(cli.timestamp, ".pdf")) >> ELSE << >>)
       IN  IF p.raised
           THEN CliSaveFailed(PdfError) /\ UNCHANGED files
           ELSE /\ files' = p.fs
                /\ cli' = [cli EXCEPT !.pc = "after_save", !.pdf_generated = p.value]
                /\ stdout' = stdout \o warning \o summary
                /\ UNCHANGED exit
    /\ UNCHANGED <<clock, extractVars, webVars>>

\* Lines 144-146: the closing warning, and main() returns.
CliReturn ==
    /\ cli.pc = "after_save"
    /\ cli' = [cli EXCEPT !.pc = "exited"]
    /\ stdout' = IF cli.workflow_error # None
                 THEN Append(stdout, Line("WARNING: Workflow did not complete successfully.", << >>))
                 ELSE stdout
    /\ exit' = [status |-> "returned", exc |-> NoExc]
    /\ UNCHANGED <<files, clock, extractVars, webVars>>

\* Time passes between two readings of datetime.now().
Tick ==
    /\ clock < MaxClock
    /\ clock' = clock + 1
    /\ UNCHANGED <<cliVars, extractVars, webVars>>

\* ------------------------------------------------------------------------
\* project_forge/core.py
\* ------------------------------------------------------------------------
\* What the collaborators of one run do: LLM(), create_agents() and Crew()
\* return or raise, the engine runs some stages, one rendering call may fail,
\* and the PDF converter works or not.
RunEnvs ==
    [llm : {NoExc, BuildError}, agents : {NoExc, BuildError}, crew : {NoExc, BuildError},
     engine : {e \in EngineOutcomes : e.done \in {2, 5}},
     render : {0, 3, 6}, pdf : {"ok", "ImportError"}]

\* `except Exception as e`: every exception of the model is an Exception.
except_ValueError_only(e) == e.type = "ValueError"
except_Exception(e) == TRUE

\* Lines 72-93: the statements of the try block, up to the first that raises.
try_block(user_input, llm_model, api_key, interactive_mode, env) ==
    LET my_llm == LLM(llm_model, api_key)
        agents == create_agents(my_llm)
        tasks == call_create_tasks(<<user_input, agents, interactive_mode>>)
    IN  IF env.llm # NoExc
        THEN [tasks |-> << >>, exc |-> env.llm, crew_result |-> None]
        ELSE IF env.agents # NoExc
        THEN [tasks |-> << >>, exc |-> env.agents, crew_result |-> None]
        ELSE IF tasks.raised
        THEN [tasks |-> << >>, exc |-> tasks.exc, crew_result |-> None]
        ELSE IF env.crew # NoExc
        THEN [tasks |-> tasks.value, exc |-> env.crew, crew_result |-> None]
        ELSE kickoff(tasks.value, env.engine)

\* run_analysis_workflow: try / except Exception / finally, then return.
\* `now` is what datetime.now() reads during the call.
run_analysis_workflow(user_input, llm_model, api_key, interactive_mode, now, env) ==
    LET timestamp == now
        t == try_block(user_input, llm_model, api_key, interactive_mode, env)
        caught == t.exc # NoExc /\ except_Exception(t.exc)
        workflow_error == IF caught THEN Some(t.exc) ELSE None
        outputs == IF t.tasks # << >>
                   THEN extract_task_outputs_safe(t.tasks).value
                   ELSE EmptyDict
        result_outputs ==
            [k \in {"intake", "architect", "quality", "synthesis", "manager"} |->
                OrElse(DictGet(outputs, k), Sentinel)]
        html == render_html(timestamp, result_outputs, now, env.render)
        result ==
            [success |-> workflow_error = None,
             outputs |-> [k \in DOMAIN result_outputs |-> Some(result_outputs[k])],
             html_content |-> IF html.raised THEN EmptyStr ELSE html.value,
             timestamp |-> timestamp,
             error |-> IF html.raised
                       THEN Some(<<"HTML generation failed: ", html.exc.msg>>)
                       ELSE IF caught THEN Some(FormatException(t.exc)) ELSE None,
             raw_result |-> t.crew_result]
    IN  [raised |-> t.exc # NoExc /\ ~caught, exc |-> t.exc, value |-> result]

\* ------------------------------------------------------------------------
\* app.py
\* ------------------------------------------------------------------------
\* initialize_session_state on a fresh session.
initialize_session_state ==
    [analysis_complete |-> FALSE, result |-> None, text_output |-> None, pdf_bytes |-> None]

NoRun ==
    [called |-> FALSE, raised |-> FALSE, user_input |-> << >>,
     env |-> [llm |-> NoExc, agents |-> NoExc, crew |-> NoExc,
              engine |-> [done |-> 0, exc |-> NoExc], render |-> 0, pdf |-> "ok"]]

\* What the user may put in the description box and in the API key field.
WebInputs == {<< >>, <<"a", "p", "p">>, <<"s", "h", "o", "p">>}
WebApiKeys == {"", "key-1"}

\* run_analysis(user_input, model_name, api_key): the new session state.
run_analysis(state, user_input, model, api_key, now, env) ==
    LET call == run_analysis_workflow(user_input, model, api_key, FALSE, now, env)
        result == call.value
        outputs == result.outputs
    IN  IF call.raised THEN state
        ELSE [analysis_complete |-> TRUE,
              result |-> Some(result),
              text_output |->
                  IF result.success
                  THEN Some(generate_text_content(result.timestamp, user_input,
                                outputs["intake"][1], outputs["architect"][1],
                                outputs["quality"][1], outputs["synthesis"][1],
                                outputs["manager"][1], now))
                  ELSE state.text_output,
              pdf_bytes |->
                  IF result.success
                  THEN generate_pdf_bytes(result.html_content, env.pdf).value
                  ELSE state.pdf_bytes]

\* display_results, download section: the buttons shown and what each
\* would download.
display_results(state) ==
    IF state.result = None
    THEN [txt |-> None, html |-> None, pdf |-> None]
    ELSE LET result == state.result[1]
             timestamp == result.timestamp
         IN  [txt |-> IF state.text_output # None
                      THEN Some([file_name |-> OutputFile(timestamp, ".txt"),
                                 data |-> state.text_output[1]])
                      ELSE None,
              html |-> IF result.html_content # EmptyStr
                       THEN Some([file_name |-> OutputFile(timestamp, ".html"),
                                  data |-> result.html_content])
                       ELSE None,
              pdf |-> IF state.pdf_bytes # None
                      THEN Some([file_name |-> OutputFile(timestamp, ".pdf"),
                                 data |-> state.pdf_bytes[1]])
                      ELSE None]

\* The user edits the description box.
WebTypeDescription(text) ==
    /\ form' = [form EXCEPT !.user_input = text]
    /\ UNCHANGED <<session_state, lastRun, clock, cliVars, extractVars>>

\* The user edits the API key field.
WebTypeApiKey(key) ==
    /\ form' = [form EXCEPT !.api_key = key]
    /\ UNCHANGED <<session_state, lastRun, clock, cliVars, extractVars>>

\* Lines 244-246: the Run Analysis button, enabled only with a key and a
\* description, calls run_analysis.
WebRunAnalysis(env) ==
    /\ ~(form.api_key = "" \/ form.user_input = << >>)
    /\ form.user_input # << >>
    /\ session_state' = run_analysis(session_state, form.user_input, form.model_name,
                                     form.api_key, clock, env)
    /\ lastRun' = [called |-> TRUE, user_input |-> form.user_input, env |-> env,
                   raised |-> run_analysis_workflow(form.user_input, form.model_name,
                                  form.api_key, FALSE, clock, env).raised]
    /\ UNCHANGED <<form, clock, cliVars, extractVars>>

\* The web session as a specification: the user edits the form and presses
\* Run Analysis any number of times.
WebInit ==
    /\ clock = 1
    /\ cli = CliIdle /\ files = EmptyDict /\ stdout = << >> /\ exit = NotExited
    /\ form \in [user_input : {<< >>}, api_key : WebApiKeys, model_name : {model_name}]
    /\ session_state = initialize_session_state /\ lastRun = NoRun
    /\ records = << >>
    /\ strictOut = extract_task_outputs_by_role(<< >>)
    /\ safeOut = extract_task_outputs_safe(<< >>)

WebNext ==
    \/ \E text \in WebInputs : WebTypeDescription(text)
    \/ \E key \in WebApiKeys : WebTypeApiKey(key)
    \/ \E env \in RunEnvs : WebRunAnalysis(env)
    \/ Tick

SpecWeb == WebInit /\ [][WebNext]_vars

\* ------------------------------------------------------------------------
\* The command-line run as a specification
\* ------------------------------------------------------------------------
CliInit ==
    /\ clock = 1
    /\ cli = CliIdle /\ files = EmptyDict /\ stdout = << >> /\ exit = NotExited
    /\ form = [user_input |-> << >>, api_key |-> "", model_name |-> model_name]
    /\ session_state = initialize_session_state /\ lastRun = NoRun
    /\ records = << >>
    /\ strictOut = extract_task_outputs_by_role(<< >>)
    /\ safeOut = extract_task_outputs_safe(<< >>)

CliNext ==
    \/ \E typed \in TypedInputs : CliGetInput(typed)
    \/ \E api_key \in EnvApiKeys, failure \in {NoExc, BuildError} : CliBuild(api_key, failure)
    \/ \E engine \in EngineOutcomes : CliKickoff(engine)
    \/ CliExtract
    \/ \E disk_ok \in BOOLEAN : CliSaveText(disk_ok)
    \/ \E failAt \in RenderFailures : CliRender(failAt)
    \/ \E disk_ok \in BOOLEAN : CliSaveHtml(disk_ok)
    \/ \E converter \in PdfOutcomes : CliSavePdf(converter)
    \/ CliReturn
    \/ Tick

SpecCLI == CliInit /\ [][CliNext]_vars

\* ------------------------------------------------------------------------
\* The stage records the extractors are exercised on
\* ------------------------------------------------------------------------
TaskPool ==
    { [agent |-> Agent(RoleIntake),    output |-> TaskOutput("intake text")],
      [agent |-> Agent(RoleArchitect), output |-> TaskOutput("architect text")],
      [agent |-> Agent(RoleQuality),   output |-> TaskOutput("quality text")],
      [agent |-> Agent(RoleQuality),   output |-> None],
      [agent |-> Agent(RoleSynthesis), output |-> TaskOutput("synthesis text")],
      [agent |-> Agent(RoleManager),   output |-> TaskOutput("manager text")],
      [agent |-> Agent(RoleLeadBoth),  output |-> TaskOutput("lead text")],
      [agent |-> Agent(RoleOther),     output |-> TaskOutput("other text")],
      [agent |-> None,                 output |-> TaskOutput("orphan text")] }

\* ------------------------------------------------------------------------
\* Extractor specification: a caller grows a task list one record at a time
\* and runs both extractors on it.
\* ------------------------------------------------------------------------
ExtractInit ==
    /\ clock = 1
    /\ cli = CliIdle /\ files = EmptyDict /\ stdout = << >> /\ exit = NotExited
    /\ form = [user_input |-> << >>, api_key |-> "", model_name |-> model_name]
    /\ session_state = initialize_session_state /\ lastRun = NoRun
    /\ records = << >>
    /\ strictOut = extract_task_outputs_by_role(<< >>)
    /\ safeOut = extract_task_outputs_safe(<< >>)

Extract(task) ==
    /\ Len(records) < MaxTasks
    /\ records' = Append(records, task)
    /\ strictOut' = extract_task_outputs_by_role(records')
    /\ safeOut' = extract_task_outputs_safe(records')
    /\ UNCHANGED <<clock, cliVars, webVars>>

ExtractNext == \E task \in TaskPool : Extract(task)

SpecExtract == ExtractInit /\ [][ExtractNext]_vars

\* ------------------------------------------------------------------------
\* Reordering specification: a caller holds a list in which each stage
\* occurs at most once, adds a record, exchanges two neighbours or drops a
\* record, and runs both extractors on the list each time.
\* ------------------------------------------------------------------------
\* No two records of the list go to the same key.
DistinctStages(tasks) ==
    \A i, j \in 1..Len(tasks) :
        (i < j /\ tasks[i].agent # None /\ tasks[j].agent # None
               /\ MatchedKey[tasks[i].agent[1].role] # None) =>
            MatchedKey[tasks[i].agent[1].role] # MatchedKey[tasks[j].agent[1].role]

SwapAt(tasks, i) ==
    [j \in 1..Len(tasks) |->
        IF j = i THEN tasks[i + 1] ELSE IF j = i + 1 THEN tasks[i] ELSE tasks[j]]

RemoveAt(tasks, i) == SubSeq(tasks, 1, i - 1) \o SubSeq(tasks, i + 1, Len(tasks))

Present(task) ==
    /\ Len(records) < MaxTasks
    /\ DistinctStages(Append(records, task))
    /\ records' = Append(records, task)
    /\ strictOut' = extract_task_outputs_by_role(records')
    /\ safeOut' = extract_task_outputs_safe(records')
    /\ UNCHANGED <<clock, cliVars, webVars>>

Reorder(i) ==
    /\ i < Len(records)
    /\ records' = SwapAt(records, i)
    /\ strictOut' = extract_task_outputs_by_role(records')
    /\ safeOut' = extract_task_outputs_safe(records')
    /\ UNCHANGED <<clock, cliVars, webVars>>

Drop(i) ==
    /\ i <= Len(records)
    /\ records' = RemoveAt(records, i)
    /\ strictOut' = extract_task_outputs_by_role(records')
    /\ safeOut' = extract_task_outputs_safe(records')
    /\ UNCHANGED <<clock, cliVars, webVars>>

ReorderNext ==
    \/ \E task \in TaskPool : Present(task)
    \/ \E i \in 1..MaxTasks : Reorder(i)
    \/ \E i \in 1..MaxTasks : Drop(i)

SpecReorder == ExtractInit /\ [][ReorderNext]_vars

\* ------------------------------------------------------------------------
\* Properties of the extractors (checked under SpecExtract)
\* ------------------------------------------------------------------------
ShortKeys == {"intake", "architect", "quality", "synthesis", "manager"}

\* The registry names that occur somewhere inside a role: the role is
\* prefix + name + suffix for some prefix and suffix.
NamesIn ==
    [role \in KnownRoles |->
        {n \in 1..Len(role_mapping) :
            \E start \in 1..(Len(role) - Len(role_mapping[n].full_role) + 1) :
                SubSeq(role, start, start + Len(role_mapping[n].full_role) - 1)
                    = role_mapping[n].full_role}]

\* The key a record is attributed to: none without an agent or without a
\* registry name in the role, else the key of the first such name in registry
\* order.
KeyOfRole ==
    [role \in KnownRoles |->
        LET names == NamesIn[role]
        IN  IF names = {} THEN None
            ELSE Some(role_mapping[CHOOSE n \in names : \A m \in names : n <= m].short_key)]

AttributedKey(task) ==
    IF task.agent = None THEN None ELSE KeyOfRole[task.agent[1].role]

RecordsFor(k) == {i \in 1..Len(records) : AttributedKey(records[i]) = Some(k)}

LastOf(S) == CHOOSE i \in S : \A j \in S : j <= i

C4_StrictRaisesIffMissing ==
    LET matched == {k \in ShortKeys : RecordsFor(k) # {}}
    IN  /\ strictOut.raised <=> (matched # ShortKeys)
        /\ strictOut.raised =>
              /\ strictOut.type = "ValueError"
              /\ strictOut.missing = ShortKeys \ matched
              /\ strictOut.found = matched
        /\ ~strictOut.raised => DOMAIN strictOut.value = ShortKeys

\* C4 witness: all five keys matched, strict extraction returned.
C4_Witness ==
    /\ ~strictOut.raised
    /\ Len(records) = 5
    /\ \A k \in ShortKeys : RecordsFor(k) # {}

\* C5: in both extractors the record processed last changes exactly the key
\* of the first registry name (in registry order) that its role contains
\* anywhere, setting it to the record's output text, and changes no key when
\* it has no agent or its role contains no registry name.
C5_SubstringFirstMatch ==
    Len(records) > 0 =>
        LET task == records[Len(records)]
            key == AttributedKey(task)
            Step(init) ==
                LET before == TaskLoop(SubSeq(records, 1, Len(records) - 1), 1, init)
                    after == TaskLoop(records, 1, init)
                IN  IF key = None THEN after = before
                    ELSE /\ DOMAIN after = (DOMAIN before) \cup {key[1]}
                         /\ after[key[1]] = Some(OutputText(task))
                         /\ \A k \in (DOMAIN before) \ {key[1]} : after[k] = before[k]
        IN  /\ Step(EmptyDict)
            /\ Step([k \in ShortKeys |-> None])
            /\ strictOut.raised => safeOut.value = TaskLoop(records, 1, [k \in ShortKeys |-> None])
            /\ ~strictOut.raised => strictOut.value = TaskLoop(records, 1, EmptyDict)

\* C5 witness: the last record's role embeds "Project Manager" and
\* "Technical Architect", neither at its start; it went to architect only.
C5_Witness ==
    /\ Len(records) > 0
    /\ records[Len(records)].agent = Agent(RoleLeadBoth)
    /\ safeOut.value["architect"] = Some("lead text")
    /\ safeOut.value["manager"] = None

\* ------------------------------------------------------------------------
\* Properties of the command-line run (checked under SpecCLI)
\* ------------------------------------------------------------------------
RoleKeyAt == <<"intake", "architect", "quality", "synthesis", "manager">>

CliOutputsComputed == DOMAIN cli.outputs = ShortKeys

\* C1: when the engine raises after exactly k of the five stages produced
\* output (0 <= k < 5), the outputs computed by main hold the real text for
\* the first k stages and the "[Task did not complete]" sentinel for each of
\* the remaining 5-k stages.
C1_PartialFailureOutputs ==
    (CliOutputsComputed /\ cli.workflow_error # None /\ cli.engine.done < 5) =>
        \A i \in 1..5 :
            cli.outputs[RoleKeyAt[i]] =
                IF i <= cli.engine.done THEN StageText[i] ELSE "[Task did not complete]"

\* C9: a failure of the PDF converter is not fatal.  For the HTML at hand and
\* each failing converter generate_pdf_bytes returns None and
\* save_pdf_output returns False, neither raising; the step of main that
\* calls save_pdf_output leaves every file already written as it was, adds
\* no file when the converter failed, prints the summary and goes on to
\* return normally.
C9_StepOk ==
    /\ \A converter \in PdfOutcomes \ {"ok"} :
          /\ generate_pdf_bytes(cli.html_content, converter) = [raised |-> FALSE, value |-> None]
          /\ LET p == save_pdf_output(files, OutputFile(cli.timestamp, ".pdf"),
                                      cli.html_content, converter)
             IN  ~p.raised /\ p.value = FALSE /\ p.fs = files
    /\ cli'.pc = "after_save"
    /\ exit' = NotExited
    /\ \A f \in DOMAIN files : f \in DOMAIN files' /\ files'[f] = files[f]
    /\ {OutputFile(cli.timestamp, ".txt"), OutputFile(cli.timestamp, ".html")} \subseteq DOMAIN files'
    /\ ~cli'.pdf_generated => files' = files
    /\ \E i \in (Len(stdout) + 1)..Len(stdout') : stdout'[i].text = "Plain text"
    /\ \E i \in (Len(stdout) + 1)..Len(stdout') : stdout'[i].text = "HTML"

C9_PdfFailureNotFatal ==
    [][ /\ (cli.pc = "save_pdf" /\ cli' # cli) => C9_StepOk
        /\ (cli.pc = "after_save" /\ cli' # cli) => exit'.status = "returned" ]_vars

\* C9 witness: main returned after a run without a PDF; the text and HTML
\* files are there and the summary was printed.
C9_Witness ==
    /\ exit.status = "returned"
    /\ ~cli.pdf_generated
    /\ DOMAIN files = {OutputFile(cli.timestamp, ".txt"), OutputFile(cli.timestamp, ".html")}
    /\ files[OutputFile(cli.timestamp, ".html")] = cli.html_content
    /\ \E i \in 1..Len(stdout) : stdout[i].text = "WARNING: PDF"
    /\ \E i \in 1..Len(stdout) : stdout[i].text = "HTML"

\* C10: once the engine has been started, the only failure that propagates
\* out of main is a failure while writing the output files; engine, rendering
\* and PDF failures are caught and main returns normally.
C10_OnlyWriteFailuresPropagate ==
    (exit.status = "raised" /\ cli.tasks # << >>) => exit.exc = WriteError

\* ------------------------------------------------------------------------
\* Properties of run_analysis_workflow and the web session (checked under
\* SpecWeb)
\* ------------------------------------------------------------------------
\* The WorkflowResult of the latest run, as stored by run_analysis.
LatestResult == session_state.result[1]

\* The exception, if any, that ended the try block of the latest run.
LatestTryException ==
    try_block(lastRun.user_input, form.model_name, form.api_key, FALSE, lastRun.env).exc

\* The latest run's collaborators all did their part: nothing raised, the
\* engine completed the five stages, rendering worked.
EngineWouldSucceed ==
    /\ lastRun.env.llm = NoExc /\ lastRun.env.agents = NoExc /\ lastRun.env.crew = NoExc
    /\ lastRun.env.engine = [done |-> 5, exc |-> NoExc]
    /\ lastRun.env.render = 0

\* C2: when run_analysis_workflow is called as the web UI calls it and the
\* engine would complete all five stages with non-empty text, the result has
\* success = true, no error, the five stages' texts as outputs and a
\* non-empty html_content.
C2_SuccessScenario ==
    (lastRun.called /\ EngineWouldSucceed) =>
        /\ ~lastRun.raised
        /\ session_state.result # None
        /\ LatestResult.success
        /\ LatestResult.error = None
        /\ \A i \in 1..5 : LatestResult.outputs[RoleKeyAt[i]] = Some(StageText[i])
        /\ LatestResult.html_content # EmptyStr

\* The call create_tasks(user_input, agents, interactive_mode) of core.py
\* passes three arguments.
PipelineConstructionRaises == 3 # Len(create_tasks_params)

\* C6: run_analysis_workflow never propagates an exception raised by LLM
\* construction, agent or pipeline construction or the engine's kickoff; it
\* returns a WorkflowResult after extraction (five outputs, none None) and
\* rendering (a document, or the HTML failure recorded), and success is true
\* exactly when none of those steps raised.
C6_NeverPropagates ==
    lastRun.called =>
        /\ ~lastRun.raised
        /\ session_state.result # None
        /\ DOMAIN LatestResult.outputs = ShortKeys
        /\ \A k \in ShortKeys : LatestResult.outputs[k] # None
        /\ \/ LatestResult.html_content # EmptyStr
           \/ /\ LatestResult.error # None
              /\ LatestResult.error[1][1] = "HTML generation failed: "
        /\ LatestResult.success <=>
              /\ lastRun.env.llm = NoExc
              /\ lastRun.env.agents = NoExc
              /\ ~PipelineConstructionRaises
              /\ lastRun.env.crew = NoExc
              /\ lastRun.env.engine.exc = NoExc

\* C6 witness: the LLM constructor raised; the run still returned a result
\* with the error recorded, five outputs and a rendered document.
C6_Witness ==
    /\ lastRun.called /\ ~lastRun.raised
    /\ lastRun.env.llm = BuildError
    /\ session_state.result # None
    /\ ~LatestResult.success
    /\ LatestResult.error = Some(<<"ValueError", ": ", "cannot build the crew">>)
    /\ LatestResult.html_content # EmptyStr

\* C7: whenever the try block of run_analysis_workflow raised, the error
\* field of the returned result is "<Type>: <message>" of that exception,
\* whatever happens in the extraction and rendering that follow.
C7_ErrorKeepsEngineException ==
    (lastRun.called /\ ~lastRun.raised /\ LatestTryException # NoExc) =>
        /\ session_state.result # None
        /\ LatestResult.error =
              Some(<<LatestTryException.type, ": ", LatestTryException.msg>>)

\* C8: after a failed run the plain-text and the HTML export of that run's
\* outputs are both still produced: the CLI has written output_<ts>.txt and
\* output_<ts>.html, and the web UI offers the TXT and the HTML download of
\* that run.
C8_ExportsAfterFailure ==
    /\ (exit.status = "returned" /\ cli.workflow_error # None) =>
          {OutputFile(cli.timestamp, ".txt"), OutputFile(cli.timestamp, ".html")}
              \subseteq DOMAIN files
    /\ (lastRun.called /\ ~lastRun.raised /\ session_state.result # None
          /\ ~LatestResult.success /\ lastRun.env.render = 0) =>
          /\ display_results(session_state).txt # None
          /\ display_results(session_state).html # None

\* ------------------------------------------------------------------------
\* Rendering failures and the plain-text output
\* ------------------------------------------------------------------------
\* The five section texts of a plain-text document, in the order written.
SectionTexts(content) == <<content[7], content[9], content[11], content[13], content[15]>>

\* The environments of one run in which the rendering call f raises.
RenderFailingEnvs == {[e EXCEPT !.render = f] : e \in RunEnvs, f \in 1..6}

\* In the command-line run the text file of this run is on disk, holding the
\* five outputs, whenever the rendering has been attempted.
C11_CliTextBeforeRender ==
    (\/ cli.pc \in {"render", "save_html", "save_pdf", "after_save"}
     \/ exit.status = "returned"
     \/ exit.status = "raised" /\ exit.exc \in {MarkdownError, TemplateError}) =>
        /\ OutputFile(cli.timestamp, ".txt") \in DOMAIN files
        /\ SectionTexts(files[OutputFile(cli.timestamp, ".txt")])
              = [i \in 1..5 |-> cli.outputs[RoleKeyAt[i]]]

\* In run_analysis_workflow a rendering failure is recorded in error with the
\* "HTML generation failed" prefix, the call returns, and outputs (and the
\* text export the web UI builds from the result) are what they are in the
\* same run without the rendering failure.
C11_WorkflowKeepsOutputs ==
    \A user_input \in WebInputs \ {<< >>}, now \in 1..MaxClock, env \in RenderFailingEnvs :
        LET same == [env EXCEPT !.render = 0]
            call == run_analysis_workflow(user_input, model_name, "key-1", FALSE, now, env)
            ref == run_analysis_workflow(user_input, model_name, "key-1", FALSE, now, same)
        IN  /\ ~call.raised
            /\ call.value.error # None
            /\ call.value.error[1][1] = "HTML generation failed: "
            /\ call.value.html_content = EmptyStr
            /\ DOMAIN call.value.outputs = ShortKeys
            /\ call.value.outputs = ref.value.outputs
            /\ call.value.success = ref.value.success
            /\ run_analysis(initialize_session_state, user_input, model_name, "key-1", now, env).text_output
                  = run_analysis(initialize_session_state, user_input, model_name, "key-1", now, same).text_output

\* C11: a markdown-to-HTML conversion or template failure does not block the
\* plain-text output of the same run: main has written the text file, with
\* the five outputs, before any conversion is attempted, and
\* run_analysis_workflow records the failure in error ("HTML generation
\* failed" prefix) while returning the five outputs unchanged, so that the
\* text export built from them is the one of the run without the failure.
C11_RenderFailureKeepsText == C11_CliTextBeforeRender /\ C11_WorkflowKeepsOutputs

\* C11 witness: main ended on a markdown conversion failure and the text
\* file of the run is on disk.
C11_Witness ==
    /\ exit.status = "raised" /\ exit.exc = MarkdownError
    /\ OutputFile(cli.timestamp, ".txt") \in DOMAIN files
    /\ files[OutputFile(cli.timestamp, ".txt")][7] = "intake text"

\* ------------------------------------------------------------------------
\* The plain-text export (checked under SpecReorder)
\* ------------------------------------------------------------------------
\* The five outputs as main (lines 100-104) and run_analysis_workflow (lines
\* 104-108) derive them from the safe extraction of the records.
DerivedOutputs == [k \in ShortKeys |-> OrElse(DictGet(safeOut.value, k), Sentinel)]

\* The text a key's section must carry: that of the last record attributed
\* to the key, wherever it stands in the list, or the sentinel.
SectionTextOf(k) ==
    IF RecordsFor(k) = {} THEN Sentinel
    ELSE OutputText(records[LastOf(RecordsFor(k))])

\* Headers and texts of a plain-text document, from the first header on.
SectionSequence(content) == SubSeq(content, 6, Len(content))

FixedSections ==
    << "## Business Requirements",       SectionTextOf("intake"),
       "## Technical Design",            SectionTextOf("architect"),
       "## Risk Assessment",             SectionTextOf("quality"),
       "## Technical Synthesis",         SectionTextOf("synthesis"),
       "## Executive Summary & Roadmap", SectionTextOf("manager") >>

\* C12: generate_text_content and save_text_output, called with the five
\* outputs as the callers pass them, emit the sections Business Requirements,
\* Technical Design, Risk Assessment, Technical Synthesis, Executive Summary
\* in that order, each header followed by the text of its key (intake,
\* architect, quality, synthesis, manager), in whatever order the records
\* were presented to the extractor; both emit the same section sequence.
C12_FixedSectionOrder ==
    LET o == DerivedOutputs
        content == generate_text_content(clock, DefaultInput, o["intake"], o["architect"],
                       o["quality"], o["synthesis"], o["manager"], clock)
        saved == save_text_output(EmptyDict, OutputFile(clock, ".txt"), DefaultInput,
                     o["intake"], o["architect"], o["quality"], o["synthesis"],
                     o["manager"], clock, TRUE)
    IN  /\ SectionSequence(content) = FixedSections
        /\ ~saved.raised
        /\ SectionSequence(saved.fs[OutputFile(clock, ".txt")]) = FixedSections

\* C12 witness: the five stages' records were presented in reverse pipeline
\* order.
C12_Witness ==
    /\ Len(records) = 5
    /\ records[1].agent = Agent(RoleManager)
    /\ records[2].agent = Agent(RoleSynthesis)
    /\ records[3].agent = Agent(RoleQuality) /\ records[3].output # None
    /\ records[4].agent = Agent(RoleArchitect)
    /\ records[5].agent = Agent(RoleIntake)
    /\ DerivedOutputs["quality"] = "quality text"

\* ------------------------------------------------------------------------
\* The WorkflowResult envelope (checked under SpecWeb)
\* ------------------------------------------------------------------------
\* C13: in every WorkflowResult returned by run_analysis_workflow the outputs
\* mapping has exactly the keys intake, architect, quality, synthesis and
\* manager, and the value of each is the real text of that key's stage or
\* "[Task did not complete]", never None.
C13_OutputsShape ==
    lastRun.called =>
        /\ ~lastRun.raised
        /\ session_state.result # None
        /\ DOMAIN LatestResult.outputs = {"intake", "architect", "quality", "synthesis", "manager"}
        /\ \A i \in 1..5 :
              /\ LatestResult.outputs[RoleKeyAt[i]] # None
              /\ LatestResult.outputs[RoleKeyAt[i]][1] \in {StageText[i], "[Task did not complete]"}

\* C13 witness: a returned result of a run whose engine would have failed
\* after two stages and whose rendering failed as well.
C13_Witness ==
    /\ lastRun.called /\ ~lastRun.raised
    /\ lastRun.env.llm = NoExc /\ lastRun.env.agents = NoExc /\ lastRun.env.crew = NoExc
    /\ lastRun.env.engine = [done |-> 2, exc |-> EngineError]
    /\ lastRun.env.render = 3
    /\ session_state.result # None
    /\ LatestResult.outputs["manager"] = Some("[Task did not complete]")

\* ------------------------------------------------------------------------
\* Extraction and ordinal position (checked under SpecReorder)
\* ------------------------------------------------------------------------
\* The attributed keys of the list are pairwise distinct.
DistinctKeys(tasks) ==
    \A i, j \in 1..Len(tasks) :
        (i < j /\ AttributedKey(tasks[i]) # None) =>
            AttributedKey(tasks[i]) # AttributedKey(tasks[j])

Occurrences(tasks, t) == Cardinality({i \in 1..Len(tasks) : tasks[i] = t})

\* b holds the records of a in another order.
Rearranged(a, b) ==
    /\ Len(a) = Len(b) /\ a # b
    /\ \A t \in TaskPool : Occurrences(a, t) = Occurrences(b, t)

\* Every rearrangement of a list of at most MaxPermuted records, extracted
\* afresh, yields the mapping of the list as it stands.
C14_AllPermutations ==
    (DistinctKeys(records) /\ Len(records) <= MaxPermuted) =>
        \A f \in Permutations(1..Len(records)) :
            extract_task_outputs_safe([i \in 1..Len(records) |-> records[f[i]]]).value
                = safeOut.value

\* One step of the caller: a rearrangement leaves the mapping as it was; the
\* removal of record i sets the key of record i to None, or changes nothing
\* when record i had no key, and leaves every other key as it was; and every
\* text in the mapping comes from a record whose role contains the registry
\* name of the key it is stored under.
C14_Step ==
    DistinctKeys(records) =>
        /\ Rearranged(records, records') => safeOut'.value = safeOut.value
        /\ \A i \in 1..Len(records) :
              records' = RemoveAt(records, i) =>
                  LET key == AttributedKey(records[i])
                  IN  /\ DOMAIN safeOut'.value = DOMAIN safeOut.value
                      /\ \A k \in ShortKeys :
                            IF key = Some(k)
                            THEN /\ safeOut.value[k] = Some(OutputText(records[i]))
                                 /\ safeOut'.value[k] = None
                            ELSE safeOut'.value[k] = safeOut.value[k]
        /\ \A n \in 1..Len(role_mapping) :
              safeOut'.value[role_mapping[n].short_key] # None =>
                  \E i \in 1..Len(records') :
                      /\ records'[i].agent # None
                      /\ n \in NamesIn[records'[i].agent[1].role]
                      /\ safeOut'.value[role_mapping[n].short_key] = Some(OutputText(records'[i]))

\* C14: extraction does not depend on ordinal position.  For every list
\* whose attributed keys are pairwise distinct, every permutation of the list
\* yields the same mapping from extract_task_outputs_safe; removing one
\* record changes only that record's key, to None, and no other key's value;
\* and no output is stored under a key whose registry name the record's role
\* does not contain.
C14_PositionIndependent == []C14_AllPermutations /\ [][C14_Step]_vars

\* C14 witness: four stages in an order that is not the pipeline's, the
\* architect's under a role that embeds two registry names, and no synthesis
\* record: the four have their texts and synthesis is None.
C14_Witness ==
    /\ Len(records) = 4
    /\ records[1].agent = Agent(RoleManager)
    /\ records[2].agent = Agent(RoleIntake)
    /\ records[3].agent = Agent(RoleLeadBoth)
    /\ records[4].agent = Agent(RoleQuality)
    /\ safeOut.value = [intake |-> Some("intake text"), architect |-> Some("lead text"),
                        quality |-> Some(OutputText(records[4])), synthesis |-> None,
                        manager |-> Some("manager text")]

\* ------------------------------------------------------------------------
\* The pipeline's stages and their context (checked under SpecCLI)
\* ------------------------------------------------------------------------
\* C15: create_tasks returns the five stages in the order intake, architect,
\* quality, synthesis, manager; the context edges are exactly
\* intake->architect, architect->quality, architect->synthesis,
\* quality->synthesis, intake->manager and synthesis->manager; every context
\* names only stages strictly earlier in the list, so that the engine, which
\* runs the list in order, has run every upstream stage of a stage it runs.
C15_StagesAndContext ==
    cli.tasks # << >> =>
        /\ Len(cli.tasks) = 5
        /\ \A i \in 1..5 : AttributedKey(cli.tasks[i]) = Some(RoleKeyAt[i])
        /\ \A i \in 1..5 : \A c \in 1..Len(cli.tasks[i].context) :
              cli.tasks[i].context[c] \in 1..(i - 1)
        /\ UNION {{<<RoleKeyAt[cli.tasks[i].context[c]], RoleKeyAt[i]>> :
                       c \in 1..Len(cli.tasks[i].context)} : i \in 1..5}
              = { <<"intake", "architect">>, <<"architect", "quality">>,
                  <<"architect", "synthesis">>, <<"quality", "synthesis">>,
                  <<"intake", "manager">>, <<"synthesis", "manager">> }
        /\ \A i \in 1..5 :
              cli.tasks[i].output # None =>
                  \A c \in 1..Len(cli.tasks[i].context) :
                      cli.tasks[cli.tasks[i].context[c]].output # None

\* C15 witness: the engine stopped after quality; synthesis and manager,
\* downstream of it, have not run.
C15_Witness ==
    /\ cli.pc = "extract"
    /\ cli.engine.done = 3
    /\ cli.tasks[3].output = TaskOutput("quality text")
    /\ cli.tasks[4].output = None /\ cli.tasks[5].output = None

\* ------------------------------------------------------------------------
\* What gates the start of a run (checked under SpecCLI)
\* ------------------------------------------------------------------------
\* main has gone past the construction of the crew: the run has started.
CliRunStarted == cli.pc \in {"kickoff", "extract", "save_text", "render", "save_html", "save_pdf", "after_save"}

\* The command-line run starts with a description, the default one when
\* nothing was typed, and with a credential.
C16_CliGate ==
    CliRunStarted =>
        /\ cli.user_input # << >>
        /\ cli.api_key # None

\* A step of the web session that runs the workflow is taken with a
\* description and an API key in the form.
C16_WebGate ==
    (lastRun' # lastRun \/ session_state' # session_state) =>
        /\ form.user_input # << >>
        /\ form.api_key # ""

\* C16: a workflow run is started only when both the project description and
\* the model credential are non-empty: the web UI triggers the run only with
\* a non-empty description and a non-empty API key; the command line replaces
\* an empty description by the built-in default before the run and does not
\* start the run with an absent credential.
C16_RunNeedsInputs == []C16_CliGate /\ [][C16_WebGate]_vars

\* ------------------------------------------------------------------------
\* Several records for one key (checked under SpecExtract)
\* ------------------------------------------------------------------------
\* The list without the records at the positions in drop.
RECURSIVE Without(_, _, _)
Without(tasks, drop, i) ==
    IF i > Len(tasks) THEN << >>
    ELSE IF i \in drop THEN Without(tasks, drop, i + 1)
    ELSE <<tasks[i]>> \o Without(tasks, drop, i + 1)

\* The five records of a completed pipeline, in list order.
PipelineRecords ==
    [i \in 1..5 |-> [agent |-> Agent(role_mapping[i].full_role), output |-> TaskOutput(StageText[i])]]

\* C17: when several records of the list go to the same short key, both
\* extractors keep the output of the last of them in list order; and the
\* outcome of each extractor, for that key and every other, is the one it
\* has on the list without the earlier records of that key.  The strict
\* extractor is also run on the list preceded by a completed pipeline's
\* records, on which it returns: every key with a record in the list holds
\* that record's output, every other key the pipeline's.
C17_LastDuplicateWins ==
    /\ \A k \in ShortKeys :
          LET for_k == RecordsFor(k)
          IN  Cardinality(for_k) >= 2 =>
                  LET last == LastOf(for_k)
                      pruned == Without(records, for_k \ {last}, 1)
                  IN  /\ safeOut.value[k] = Some(OutputText(records[last]))
                      /\ ~strictOut.raised => strictOut.value[k] = Some(OutputText(records[last]))
                      /\ extract_task_outputs_safe(pruned) = safeOut
                      /\ extract_task_outputs_by_role(pruned) = strictOut
    /\ LET strict == extract_task_outputs_by_role(PipelineRecords \o records)
       IN  /\ ~strict.raised
           /\ \A i \in 1..5 :
                 LET for_k == RecordsFor(RoleKeyAt[i])
                 IN  strict.value[RoleKeyAt[i]] =
                         IF for_k = {} THEN Some(StageText[i])
                         ELSE Some(OutputText(records[LastOf(for_k)]))

\* C17 witness: two quality records, the first with a text and the last
\* with its output unset; the key holds what is read from the last.
C17_Witness ==
    /\ \E i, j \in 1..Len(records) :
          /\ i < j
          /\ records[i] = [agent |-> Agent(RoleQuality), output |-> TaskOutput("quality text")]
          /\ records[j] = [agent |-> Agent(RoleQuality), output |-> None]
          /\ \A n \in (j + 1)..Len(records) : AttributedKey(records[n]) # Some("quality")
    /\ safeOut.value["quality"] = Some(StrOfNone)
    /\ safeOut.value["intake"] = Some("intake text")

\* ------------------------------------------------------------------------
\* The rendered document (checked under SpecCLI)
\* ------------------------------------------------------------------------
\* A document with its "Generated:" date blanked.
WithoutGeneratedDate(doc) == [doc EXCEPT ![4] = "-"]

\* The section labels of a document and the fragments under them, in
\* document order.
SectionLabels(doc) == [n \in 1..((Len(doc) - 4) \div 2) |-> doc[3 + 2 * n]]
SectionFragments(doc) == [n \in 1..((Len(doc) - 4) \div 2) |-> doc[4 + 2 * n]]

\* C18: rendering is deterministic.  Two calls of generate_html_template
\* with the same timestamp and the same five HTML fragments, at whatever
\* times, produce the same document except for the "Generated:" date; and
\* the document embeds the five fragments in the order intake (BA),
\* architect, quality (QA), synthesis, manager (PM), each once.
C18_RenderingDeterministic ==
    cli.pc \in {"save_html", "save_pdf", "after_save"} =>
        LET html == [i \in 1..5 |-> convert_markdown_to_html(cli.outputs[RoleKeyAt[i]], FALSE).value]
            Doc(now) == generate_html_template(cli.timestamp, html[1], html[2], html[3],
                                               html[4], html[5], now)
        IN  /\ \A now1, now2 \in 0..MaxClock :
                  WithoutGeneratedDate(Doc(now1)) = WithoutGeneratedDate(Doc(now2))
            /\ WithoutGeneratedDate(cli.html_content) = WithoutGeneratedDate(Doc(0))
            /\ cli.html_content[2] = cli.timestamp
            /\ SectionLabels(cli.html_content) = <<"BA", "Architect", "QA", "Synthesis", "PM">>
            /\ SectionFragments(cli.html_content) = html

\* C18 witness: a document rendered at a later time than the run's
\* timestamp, from five different texts.
C18_Witness ==
    /\ cli.pc = "save_html"
    /\ cli.html_content # EmptyStr
    /\ cli.html_content[4] # cli.timestamp
    /\ cli.engine = [done |-> 5, exc |-> NoExc]
    /\ cli.html_content[14] = <<"<html-of>", "manager text">>

\* ------------------------------------------------------------------------
\* Downloads across the runs of one web session (checked under SpecWeb)
\* ------------------------------------------------------------------------
\* The text and the PDF that belong to the latest run's WorkflowResult.
LatestText ==
    generate_text_content(LatestResult.timestamp, lastRun.user_input,
        LatestResult.outputs["intake"][1], LatestResult.outputs["architect"][1],
        LatestResult.outputs["quality"][1], LatestResult.outputs["synthesis"][1],
        LatestResult.outputs["manager"][1], LatestResult.timestamp)

LatestPdf == <<"%PDF", LatestResult.html_content>>

\* C19: after any sequence of runs in one web session, each of the TXT and
\* PDF downloads is either not offered or is named with the latest run's
\* timestamp and carries the text, respectively the PDF, derived from the
\* latest run's WorkflowResult, never the content of an earlier run.
C19_DownloadsOfLatestRun ==
    (lastRun.called /\ session_state.result # None) =>
        LET shown == display_results(session_state)
        IN  /\ shown.txt # None =>
                  /\ shown.txt[1].file_name = OutputFile(LatestResult.timestamp, ".txt")
                  /\ shown.txt[1].data = LatestText
            /\ shown.pdf # None =>
                  /\ shown.pdf[1].file_name = OutputFile(LatestResult.timestamp, ".pdf")
                  /\ shown.pdf[1].data = LatestPdf
            /\ shown.html # None =>
                  /\ shown.html[1].file_name = OutputFile(LatestResult.timestamp, ".html")
                  /\ shown.html[1].data = LatestResult.html_content

\* C19 witness: a run made at the second reading of the clock with the
\* description changed to "shop": its HTML is offered under its timestamp,
\* and neither TXT nor PDF is offered.
C19_Witness ==
    /\ lastRun.called /\ session_state.result # None
    /\ lastRun.user_input = <<"s", "h", "o", "p">>
    /\ LatestResult.timestamp = 2
    /\ display_results(session_state).html # None
    /\ display_results(session_state).html[1].file_name = OutputFile(2, ".html")
    /\ display_results(session_state).txt = None
    /\ display_results(session_state).pdf = None

\* ------------------------------------------------------------------------
\* success and error of a WorkflowResult (checked under SpecWeb)
\* ------------------------------------------------------------------------
\* C20: in every WorkflowResult returned by run_analysis_workflow, success
\* is true if and only if error is None: never success = true with an error,
\* never success = false without one.
C20_SuccessIffNoError ==
    (lastRun.called /\ ~lastRun.raised /\ session_state.result # None) =>
        (LatestResult.success <=> LatestResult.error = None)

\* C20 witness: a run in which every collaborator did its part and only the
\* template call failed; the result reports the HTML failure and no success.
C20_Witness ==
    /\ lastRun.called /\ ~lastRun.raised /\ session_state.result # None
    /\ lastRun.env.llm = NoExc /\ lastRun.env.agents = NoExc /\ lastRun.env.crew = NoExc
    /\ lastRun.env.engine = [done |-> 5, exc |-> NoExc]
    /\ lastRun.env.render = 6
    /\ ~LatestResult.success
    /\ LatestResult.error = Some(<<"HTML generation failed: ", "template failed">>)

\* ------------------------------------------------------------------------
\* Safe extraction against strict extraction (checked under SpecExtract)
\* ------------------------------------------------------------------------
\* What the strict pass has recorded when it reaches its validation.
StrictRecorded == TaskLoop(records, 1, EmptyDict)

\* C21: extract_task_outputs_safe refines strict extraction.  Whenever
\* extract_task_outputs_by_role returns on a list, extract_task_outputs_safe
\* returns the identical mapping; whenever it raises the missing-roles
\* error, the safe result gives each matched key the text the strict pass
\* had recorded for it, and gives None to exactly the keys of the reported
\* missing set.
C21_SafeRefinesStrict ==
    /\ ~safeOut.raised
    /\ ~strictOut.raised =>
          /\ safeOut.value = strictOut.value
          /\ safeOut.value = StrictRecorded
    /\ strictOut.raised =>
          /\ strictOut.type = "ValueError"
          /\ strictOut.found = DOMAIN StrictRecorded
          /\ strictOut.missing = ShortKeys \ DOMAIN StrictRecorded
          /\ DOMAIN safeOut.value = ShortKeys
          /\ \A k \in DOMAIN StrictRecorded :
                /\ safeOut.value[k] = StrictRecorded[k]
                /\ safeOut.value[k] = Some(OutputText(records[LastOf(RecordsFor(k))]))
          /\ {k \in ShortKeys : safeOut.value[k] = None} = strictOut.missing

\* C21 witness: strict extraction raised with synthesis and manager
\* missing; the safe result has the three recorded texts, one of them read
\* from an unset output, and None for the two missing keys.
C21_Witness ==
    /\ strictOut.raised
    /\ strictOut.missing = {"synthesis", "manager"}
    /\ safeOut.value = [intake |-> Some("intake text"), architect |-> Some("lead text"),
                        quality |-> Some(StrOfNone), synthesis |-> None, manager |-> None]

====
